---- MODULE Spec2Model ----
(***************************************************************************)
(* Model of analyze_liquidity.py: the two reconciliation loops             *)
(* (get_bids_volume, get_asks_volume), the per-exchange tracking loop      *)
(* (analyze_liquidity) and the hourly-rate summary of the main block.      *)
(*                                                                         *)
(* Two specifications share the module:                                    *)
(*   SpecVolume   one run of a reconciliation loop, one loop iteration per *)
(*                step, for every pair of sides within the bounds;         *)
(*   SpecAnalyze  the tracking loop over an input log, one line per step,  *)
(*                followed by the two summary computations.                *)
(* Prices and quantities are decimal strings, as in the log; float() is    *)
(* modelled on the strings of the model.  Floating-point rounding is not   *)
(* modelled: every value of the model is an integer.                       *)
(***************************************************************************)
EXTENDS Integers, Sequences, FiniteSets, TLC

VARIABLES
    \* ---- one call of get_bids_volume / get_asks_volume ----
    side,               \* "bids": get_bids_volume runs, "asks": get_asks_volume
    actual,             \* parameter actual_bids / actual_asks
    old,                \* parameter old_bids / old_asks
    i,                  \* index into actual
    offset,             \* old_bids_offset / old_asks_offset
    volume,             \* result accumulator; the return value once stop holds
    unmatched_volume,   \* provisional removals not yet confirmed by a match
    stop,               \* loop flag
    iterations,         \* auxiliary: loop bodies executed so far
    \* ---- analyze_liquidity and the main block ----
    ob_log_list,        \* the lines of the log the loop has consumed so far
    ex1,                \* ex1_bids, ex1_asks and the four ex1_* lists
    ex2,                \* ex2_bids, ex2_asks and the four ex2_* lists
    pc,                 \* position in the program
    ex1_avg_hourly_volume,
    ex2_avg_hourly_volume,
    raised              \* the exception that ended the program, or "none"

volumeVars == <<side, actual, old, i, offset, volume, unmatched_volume, stop, iterations>>
analyzeVars == <<ob_log_list, ex1, ex2, pc, ex1_avg_hourly_volume, ex2_avg_hourly_volume, raised>>
vars == <<side, actual, old, i, offset, volume, unmatched_volume, stop, iterations,
          ob_log_list, ex1, ex2, pc, ex1_avg_hourly_volume, ex2_avg_hourly_volume, raised>>

(***************************************************************************)
(* Bounds and input domains                                                *)
(***************************************************************************)
MaxLen == 2
MaxLog == 3
MaxTs == 2

\* Decimal strings of the log; "2" and "2.0" denote the same price.
PriceStrings == {"1", "2", "2.0", "3"}
QtyStrings == {"1", "2"}

\* float(): the number a decimal string of the model denotes.
float(s) == CASE s = "1" -> 1
              [] s = "2" -> 2
              [] s = "2.0" -> 2
              [] s = "3" -> 3
              [] s = "4" -> 4
              [] s = "5" -> 5

\* A level is the pair [price, quantity] of the log; a side is a list of levels.
Levels == PriceStrings \X QtyStrings

SeqsUpTo(S, n) == UNION {[1..k -> S] : k \in 0..n}

Sides == SeqsUpTo(Levels, MaxLen)

None == "None"

(***************************************************************************)
(* Python list helpers                                                     *)
(***************************************************************************)
\* lst[k] for a 0-based k; a negative k counts from the end of the list.
PyIndex(lst, k) == IF k >= 0 THEN lst[k + 1] ELSE lst[Len(lst) + k + 1]

RECURSIVE sum(_)
sum(lst) == IF lst = <<>> THEN 0 ELSE lst[1] + sum(Tail(lst))

max(a, b) == IF a >= b THEN a ELSE b
min(a, b) == IF a <= b THEN a ELSE b

(***************************************************************************)
(* get_bids_volume / get_asks_volume                                       *)
(* The loop state is the record [i, offset, volume, unmatched_volume].     *)
(***************************************************************************)
\* The loop condition: both indices are inside their lists.
LoopCond(act, old_side, s) ==
    s.i + s.offset < Len(old_side) /\ s.i < Len(act)

\* First `if`: bids  float(actual_bid[0]) > float(old_bid[0]),
\*             asks  float(actual_ask[0]) < float(old_ask[0]).
IsBetter(sd, a, o) ==
    IF sd = "bids" THEN float(a[1]) > float(o[1]) ELSE float(a[1]) < float(o[1])

\* Second `if`: bids  float(actual_bid[0]) < float(old_bid[0]),
\*              asks  float(actual_ask[0]) > float(old_ask[0]).
IsWorse(sd, a, o) ==
    IF sd = "bids" THEN float(a[1]) < float(o[1]) ELSE float(a[1]) > float(o[1])

\* Third `if`: the prices are equal.
IsMatch(a, o) == float(a[1]) = float(o[1])

\* Variant of BetterBranch that counts the appearing level as volume.
BetterBranchCredits(s) ==
    [s EXCEPT !.i = s.i + 1, !.offset = s.offset - 1, !.volume = s.volume + 1]

BetterBranch(s) ==
    [s EXCEPT !.i = s.i + 1, !.offset = s.offset - 1]

\* Variant of WorseBranch without `old_bids_offset += 1`.
WorseBranchNoAdvance(s, o) ==
    [s EXCEPT !.unmatched_volume = s.unmatched_volume + float(o[2]) * float(o[1])]

WorseBranch(s, o) ==
    LET qty_difference == float(o[2]) * float(o[1])
    IN  [s EXCEPT !.i = s.i + 0,
                  !.offset = s.offset + 1,
                  !.unmatched_volume = s.unmatched_volume + qty_difference]

\* Variant of MatchBranch without the `if plevel_volume > 0` guard.
MatchBranchNoGuard(s, a, o) ==
    LET credited == IF s.unmatched_volume > 0
                    THEN s.volume + s.unmatched_volume ELSE s.volume
        plevel_volume == (float(o[2]) - float(a[2])) * float(a[1])
    IN  [s EXCEPT !.i = s.i + 1,
                  !.volume = credited + plevel_volume,
                  !.unmatched_volume = 0]

\* Variant of MatchBranch that resets unmatched_volume without crediting it.
MatchBranchDropsUnmatched(s, a, o) ==
    LET plevel_volume == (float(o[2]) - float(a[2])) * float(a[1])
    IN  [s EXCEPT !.i = s.i + 1,
                  !.volume = IF plevel_volume > 0
                             THEN s.volume + plevel_volume ELSE s.volume,
                  !.unmatched_volume = 0]

\* Variant of MatchBranch with old quantity + actual quantity.
MatchBranchSum(s, a, o) ==
    LET credited == IF s.unmatched_volume > 0
                    THEN s.volume + s.unmatched_volume ELSE s.volume
        plevel_volume == (float(o[2]) + float(a[2])) * float(a[1])
    IN  [s EXCEPT !.i = s.i + 1,
                  !.volume = IF plevel_volume > 0
                             THEN credited + plevel_volume ELSE credited,
                  !.unmatched_volume = 0]

MatchBranch(s, a, o) ==
    LET credited == IF s.unmatched_volume > 0
                    THEN s.volume + s.unmatched_volume ELSE s.volume
        plevel_volume == (float(o[2]) - float(a[2])) * float(a[1])
    IN  [s EXCEPT !.i = s.i + 1,
                  !.offset = s.offset + 0,
                  !.volume = IF plevel_volume > 0
                             THEN credited + plevel_volume ELSE credited,
                  !.unmatched_volume = 0]

\* One execution of the loop body: the two levels are read once, then the
\* three `if` statements run in sequence on the values read.
LoopBody(sd, act, old_side, s) ==
    LET a == PyIndex(act, s.i)
        o == PyIndex(old_side, s.i + s.offset)
        s1 == IF IsBetter(sd, a, o) THEN BetterBranch(s) ELSE s
        s2 == IF IsWorse(sd, a, o) THEN WorseBranch(s1, o) ELSE s1
        s3 == IF IsMatch(a, o) THEN MatchBranch(s2, a, o) ELSE s2
    IN  s3

LoopStart == [i |-> 0, offset |-> 0, volume |-> 0, unmatched_volume |-> 0]

RECURSIVE RunLoop(_, _, _, _)
RunLoop(sd, act, old_side, s) ==
    IF LoopCond(act, old_side, s)
    THEN RunLoop(sd, act, old_side, LoopBody(sd, act, old_side, s))
    ELSE s.volume

get_bids_volume(actual_bids, old_bids) == RunLoop("bids", actual_bids, old_bids, LoopStart)

get_asks_volume(actual_asks, old_asks) == RunLoop("asks", actual_asks, old_asks, LoopStart)

(***************************************************************************)
(* SpecVolume: one call of a reconciler, one loop iteration per step       *)
(***************************************************************************)
LoopState == [i |-> i, offset |-> offset, volume |-> volume,
              unmatched_volume |-> unmatched_volume]

AnalyzeIdle ==
    /\ ob_log_list = <<>>
    /\ ex1 = None
    /\ ex2 = None
    /\ pc = "idle"
    /\ ex1_avg_hourly_volume = None
    /\ ex2_avg_hourly_volume = None
    /\ raised = "none"

InitVolume ==
    /\ side \in {"bids", "asks"}
    /\ actual \in Sides
    /\ old \in Sides
    /\ i = 0
    /\ offset = 0
    /\ volume = 0
    /\ unmatched_volume = 0
    /\ stop = FALSE
    /\ iterations = 0
    /\ AnalyzeIdle

\* `while stop is False`, the `if` branch of the loop.
Iterate ==
    /\ stop = FALSE
    /\ LoopCond(actual, old, LoopState)
    /\ LET s == LoopBody(side, actual, old, LoopState)
       IN  /\ i' = s.i
           /\ offset' = s.offset
           /\ volume' = s.volume
           /\ unmatched_volume' = s.unmatched_volume
    /\ iterations' = iterations + 1
    /\ UNCHANGED <<side, actual, old, stop>>
    /\ UNCHANGED analyzeVars

\* The `else` branch: stop = True, then `return volume`.
Stop ==
    /\ stop = FALSE
    /\ ~LoopCond(actual, old, LoopState)
    /\ stop' = TRUE
    /\ UNCHANGED <<side, actual, old, i, offset, volume, unmatched_volume, iterations>>
    /\ UNCHANGED analyzeVars

NextVolume == Iterate \/ Stop

SpecVolume == InitVolume /\ [][NextVolume]_vars

(***************************************************************************)
(* analyze_liquidity                                                       *)
(***************************************************************************)
EX1 == "EX1"
EX2 == "EX2"

\* Order books seen in the log: bids best (highest) first, asks best (lowest)
\* first.
Books ==
    { [bids |-> << <<"3", "2">>, <<"2", "1">> >>,
       asks |-> << <<"4", "1">>, <<"5", "2">> >>],
      [bids |-> << <<"3", "1">>, <<"2.0", "1">> >>,
       asks |-> << <<"5", "2">> >>],
      [bids |-> << >>,
       asks |-> << <<"4", "2">>, <<"5", "1">> >>] }

\* loads(line): one decoded record of the log.
Snapshots ==
    { [timestamp |-> t, exchange |-> e, bids |-> b.bids, asks |-> b.asks] :
        t \in 1..MaxTs, e \in {EX1, EX2, "EX3"}, b \in Books }

\* The state kept for one exchange before the first line is read.
ExchangeStart ==
    [bids |-> None, asks |-> None,
     bids_volume_timestamp_list |-> <<>>, bids_volume_list |-> <<>>,
     asks_volume_timestamp_list |-> <<>>, asks_volume_list |-> <<>>]

\* old side None is read as an empty side: the first snapshot appends too.
ExchangeBlockNoSeed(ex, data) ==
    LET old_ex_bids == IF ex.bids = None THEN <<>> ELSE ex.bids
        old_ex_asks == IF ex.asks = None THEN <<>> ELSE ex.asks
    IN  [ex EXCEPT
            !.bids_volume_list = Append(@, get_bids_volume(data.bids, old_ex_bids)),
            !.bids_volume_timestamp_list = Append(@, data.timestamp),
            !.asks_volume_list = Append(@, get_asks_volume(data.asks, old_ex_asks)),
            !.asks_volume_timestamp_list = Append(@, data.timestamp),
            !.bids = data.bids,
            !.asks = data.asks]

\* The reconcilers are called with their two arguments exchanged.
ExchangeBlockSwapped(ex, data) ==
    LET withBids ==
            IF ex.bids # None /\ data.bids # None
            THEN [ex EXCEPT
                    !.bids_volume_list = Append(@, get_bids_volume(ex.bids, data.bids)),
                    !.bids_volume_timestamp_list = Append(@, data.timestamp)]
            ELSE ex
        withAsks ==
            IF ex.asks # None /\ data.asks # None
            THEN [withBids EXCEPT
                    !.asks_volume_list = Append(@, get_asks_volume(ex.asks, data.asks)),
                    !.asks_volume_timestamp_list = Append(@, data.timestamp)]
            ELSE withBids
    IN  [withAsks EXCEPT !.bids = data.bids, !.asks = data.asks]

\* The block run for a line of the exchange (the EXCHANGE 1 and EXCHANGE 2
\* blocks are the same code on ex1_* and ex2_*).
ExchangeBlock(ex, data) ==
    LET old_ex_bids == ex.bids
        old_ex_asks == ex.asks
        ex_bids == data.bids
        ex_asks == data.asks
        withBids ==
            IF old_ex_bids # None /\ ex_bids # None
            THEN [ex EXCEPT
                    !.bids_volume_list =
                        Append(@, get_bids_volume(ex_bids, old_ex_bids)),
                    !.bids_volume_timestamp_list = Append(@, data.timestamp)]
            ELSE ex
        withAsks ==
            IF old_ex_asks # None /\ ex_asks # None
            THEN [withBids EXCEPT
                    !.asks_volume_list =
                        Append(@, get_asks_volume(ex_asks, old_ex_asks)),
                    !.asks_volume_timestamp_list = Append(@, data.timestamp)]
            ELSE withBids
    IN  [withAsks EXCEPT !.bids = ex_bids, !.asks = ex_asks]

(***************************************************************************)
(* The hourly rate of the main block                                       *)
(***************************************************************************)
\* x / y * 3600 as the exact fraction num / den.
Rate(x, y) == [num |-> x * 3600, den |-> y]

IsZeroRate(r) == r # None /\ r.num = 0

\* ex_lapse: the latest last timestamp minus the earliest first timestamp.
Lapse(ex) ==
    max(PyIndex(ex.asks_volume_timestamp_list, -1),
        PyIndex(ex.bids_volume_timestamp_list, -1))
    - min(PyIndex(ex.asks_volume_timestamp_list, 0),
          PyIndex(ex.bids_volume_timestamp_list, 0))

\* ex_lapse and ex_avg_hourly_volume of one exchange: the exception raised,
\* or the rate.  Indexing an empty list raises IndexError, dividing by a zero
\* lapse raises ZeroDivisionError.
HourlyVolume(ex) ==
    LET ex_bids_volume == sum(ex.bids_volume_list)
        ex_asks_volume == sum(ex.asks_volume_list)
    IN  IF ex.asks_volume_timestamp_list = <<>> \/ ex.bids_volume_timestamp_list = <<>>
        THEN [raised |-> "IndexError", value |-> None]
        ELSE IF Lapse(ex) = 0
             THEN [raised |-> "ZeroDivisionError", value |-> None]
             ELSE [raised |-> "none",
                   value |-> Rate(ex_bids_volume + ex_asks_volume, Lapse(ex))]

(***************************************************************************)
(* SpecAnalyze: the tracking loop, then the two summaries                  *)
(***************************************************************************)
VolumeIdle ==
    /\ side = "bids"
    /\ actual = <<>>
    /\ old = <<>>
    /\ i = 0
    /\ offset = 0
    /\ volume = 0
    /\ unmatched_volume = 0
    /\ stop = TRUE
    /\ iterations = 0

InitAnalyze ==
    /\ ob_log_list = <<>>
    /\ ex1 = ExchangeStart
    /\ ex2 = ExchangeStart
    /\ pc = "analyze"
    /\ ex1_avg_hourly_volume = None
    /\ ex2_avg_hourly_volume = None
    /\ raised = "none"
    /\ VolumeIdle

\* One iteration of `for line in range(len(ob_log_list))`.
ProcessLine ==
    /\ pc = "analyze"
    /\ Len(ob_log_list) < MaxLog
    /\ \E data \in Snapshots :
        /\ ob_log_list' = Append(ob_log_list, data)
        /\ ex1' = IF data.exchange = EX1 THEN ExchangeBlock(ex1, data) ELSE ex1
        /\ ex2' = IF data.exchange = EX2 THEN ExchangeBlock(ex2, data) ELSE ex2
    /\ UNCHANGED <<pc, ex1_avg_hourly_volume, ex2_avg_hourly_volume, raised>>
    /\ UNCHANGED volumeVars

\* The log is exhausted: ex1_lapse and ex1_avg_hourly_volume.
Ex1Summary ==
    /\ pc = "analyze"
    /\ LET r == HourlyVolume(ex1)
       IN  /\ ex1_avg_hourly_volume' = r.value
           /\ raised' = r.raised
           /\ pc' = IF r.raised = "none" THEN "ex2_summary" ELSE "failed"
    /\ UNCHANGED <<ob_log_list, ex1, ex2, ex2_avg_hourly_volume>>
    /\ UNCHANGED volumeVars

\* ex2_lapse and ex2_avg_hourly_volume.
Ex2Summary ==
    /\ pc = "ex2_summary"
    /\ LET r == HourlyVolume(ex2)
       IN  /\ ex2_avg_hourly_volume' = r.value
           /\ raised' = r.raised
           /\ pc' = IF r.raised = "none" THEN "done" ELSE "failed"
    /\ UNCHANGED <<ob_log_list, ex1, ex2, ex1_avg_hourly_volume>>
    /\ UNCHANGED volumeVars

NextAnalyze == ProcessLine \/ Ex1Summary \/ Ex2Summary

SpecAnalyze == InitAnalyze /\ [][NextAnalyze]_vars

(***************************************************************************)
(* Properties of the reconcilers (SpecVolume)                              *)
(***************************************************************************)
Price(l) == float(l[1])
Qty(l) == float(l[2])
Notional(l) == float(l[1]) * float(l[2])

NonNegative(s) == \A k \in 1..Len(s) : Price(s[k]) >= 0 /\ Qty(s[k]) >= 0

\* Best first with distinct prices: bids descending, asks ascending.
StrictlySorted(sd, s) == \A k \in 1..(Len(s) - 1) : IsBetter(sd, s[k], s[k + 1])

RECURSIVE TotalNotional(_)
TotalNotional(s) == IF s = <<>> THEN 0 ELSE Notional(s[1]) + TotalNotional(Tail(s))

\* The old-side pointer.
OldIndex == i + offset

\* The levels of s at the positions of K, in order, as (price, quantity) values.
RECURSIVE Restrict(_, _, _)
Restrict(s, K, k) ==
    IF k > Len(s) THEN <<>>
    ELSE IF k \in K THEN <<(<<Price(s[k]), Qty(s[k])>>)>> \o Restrict(s, K, k + 1)
    ELSE Restrict(s, K, k + 1)

Values(s) == [k \in 1..Len(s) |-> <<Price(s[k]), Qty(s[k])>>]

\* The notional of the levels of s outside K that have a level of K after them.
RECURSIVE ConfirmedRemovals(_, _, _)
ConfirmedRemovals(s, K, k) ==
    IF k > Len(s) THEN 0
    ELSE (IF k \notin K /\ (\E m \in K : m > k) THEN Notional(s[k]) ELSE 0)
         + ConfirmedRemovals(s, K, k + 1)

\* C4: with non-negative prices and quantities, volume and unmatched_volume are
\* never negative in any state of the loop, so the value returned is >= 0.
C4_NonNegative ==
    (NonNegative(actual) /\ NonNegative(old)) =>
        (volume >= 0 /\ unmatched_volume >= 0)

\* A run that returned a positive volume although a matched level grew.
C4_Witness ==
    /\ stop /\ volume > 0
    /\ \E k \in 1..Len(actual), m \in 1..Len(old) :
        Price(actual[k]) = Price(old[m]) /\ Qty(actual[k]) > Qty(old[m])

\* C5: when old is sorted with distinct prices and actual is old with some
\* levels deleted, the value returned is the notional of the deleted levels that
\* have a kept level after them in old; it is 0 when actual is a prefix of old.
C5_DeletedLevels ==
    (stop /\ StrictlySorted(side, old)) =>
        \A K \in SUBSET (1..Len(old)) :
            (Restrict(old, K, 1) = Values(actual)) =>
                volume = ConfirmedRemovals(old, K, 1)

\* A run where a deleted level was confirmed by a later match.
C5_Witness ==
    /\ stop /\ StrictlySorted(side, old)
    /\ Len(old) = 2 /\ Values(actual) = Restrict(old, {2}, 1)
    /\ volume = Notional(old[1]) /\ volume > 0

RECURSIVE ReductionsFrom(_, _, _)
ReductionsFrom(new, prev, k) ==
    IF k > Len(new) THEN 0
    ELSE max(0, (Qty(prev[k]) - Qty(new[k])) * Price(new[k]))
         + ReductionsFrom(new, prev, k + 1)

SamePrices(new, prev) ==
    /\ Len(new) = Len(prev)
    /\ \A k \in 1..Len(new) : Price(new[k]) = Price(prev[k])

\* C6: when actual and old have the same length and the same price at every
\* position, the value returned is the sum of max(0, (old qty - new qty) * price).
C6_SamePricesDelta ==
    (stop /\ SamePrices(actual, old)) => volume = ReductionsFrom(actual, old, 1)

\* A run over two positions, one reduced and one increased.
C6_Witness ==
    /\ stop /\ SamePrices(actual, old) /\ Len(actual) = 2
    /\ Qty(actual[1]) < Qty(old[1]) /\ Qty(actual[2]) > Qty(old[2])
    /\ volume = (Qty(old[1]) - Qty(actual[1])) * Price(actual[1])

\* C8: for all sides, sorted or not, every iteration moves i or the old-side
\* pointer forward and neither back, the loop body runs at most
\* len(actual) + len(old) times, and both indices read are inside their lists.
C8_Terminates ==
    /\ [](/\ iterations <= Len(actual) + Len(old)
          /\ i >= 0 /\ OldIndex >= 0
          /\ i <= Len(actual) /\ OldIndex <= Len(old))
    /\ [][(iterations' = iterations + 1) =>
            /\ i' >= i /\ OldIndex' >= OldIndex
            /\ (i' > i \/ OldIndex' > OldIndex)]_vars

\* A finished run over an unsorted side of at least two iterations that ended
\* with a negative offset.
C8_Witness ==
    /\ stop /\ ~StrictlySorted(side, actual)
    /\ offset < 0 /\ iterations >= 2

\* Every level of prev is in new with at least its quantity.
Contains(new, prev) ==
    \A m \in 1..Len(prev) : \E k \in 1..Len(new) :
        Price(new[k]) = Price(prev[m]) /\ Qty(new[k]) >= Qty(prev[m])

\* C9: a step whose actual level is strictly better than the aligned old level
\* advances i, decrements offset and leaves both accumulators alone; and a
\* sorted actual that contains every level of a sorted old returns 0.
C9_BetterLevelAddsNothing ==
    /\ [][(/\ iterations' = iterations + 1
           /\ IsBetter(side, PyIndex(actual, i), PyIndex(old, OldIndex))) =>
            /\ i' = i + 1 /\ offset' = offset - 1
            /\ volume' = volume /\ unmatched_volume' = unmatched_volume]_vars
    /\ []((/\ stop
           /\ StrictlySorted(side, old) /\ StrictlySorted(side, actual)
           /\ Contains(actual, old)) => volume = 0)

\* A finished run where actual has all of old plus a better level.
C9_Witness ==
    /\ stop /\ old # <<>>
    /\ StrictlySorted(side, old) /\ StrictlySorted(side, actual)
    /\ Contains(actual, old) /\ Len(actual) > Len(old)
    /\ offset < 0 /\ volume = 0

NoCommonPrice(new, prev) ==
    \A k \in 1..Len(new), m \in 1..Len(prev) : Price(new[k]) # Price(prev[m])

\* C10: with non-negative prices and quantities, volume never exceeds the total
\* notional of old, and it is 0 when old or actual is empty or they share no price.
C10_BoundedByOld ==
    (NonNegative(actual) /\ NonNegative(old)) =>
        /\ volume <= TotalNotional(old)
        /\ (old = <<>> \/ actual = <<>> \/ NoCommonPrice(actual, old)) => volume = 0

\* A run that credited a removal and a reduction and stayed under the bound.
C10_Witness ==
    /\ stop /\ Len(old) = 2 /\ Len(actual) = 1
    /\ volume > Notional(old[1]) /\ volume < TotalNotional(old)

(***************************************************************************)
(* Properties of the tracking loop and the summary (SpecAnalyze)           *)
(***************************************************************************)
\* The snapshots of exchange e among the lines consumed so far.
SnapshotsOf(e) == SelectSeq(ob_log_list, LAMBDA d : d.exchange = e)

TrackerOf(e) == IF e = EX1 THEN ex1 ELSE ex2

\* C3: once n >= 1 snapshots of an exchange were processed, each of its four
\* lists has exactly n - 1 elements.
C3_SeriesLength ==
    (pc = "analyze") =>
        \A e \in {EX1, EX2} :
            LET n == Len(SnapshotsOf(e))
                t == TrackerOf(e)
            IN  n >= 1 =>
                    /\ Len(t.bids_volume_timestamp_list) = n - 1
                    /\ Len(t.bids_volume_list) = n - 1
                    /\ Len(t.asks_volume_timestamp_list) = n - 1
                    /\ Len(t.asks_volume_list) = n - 1

\* Two snapshots of EX1 with one of EX2 between them.
C3_Witness ==
    /\ pc = "analyze" /\ Len(ob_log_list) = 3
    /\ ob_log_list[1].exchange = EX1
    /\ ob_log_list[2].exchange = EX2
    /\ ob_log_list[3].exchange = EX1
    /\ Len(ex1.bids_volume_list) = 1 /\ Len(ex2.bids_volume_list) = 0

\* The entries of the tracker of e are those of consecutive snapshots of e.
ConsecutivePairs(e) ==
    LET sn == SnapshotsOf(e)
        t == TrackerOf(e)
    IN  /\ t.bids = (IF sn = <<>> THEN None ELSE sn[Len(sn)].bids)
        /\ t.asks = (IF sn = <<>> THEN None ELSE sn[Len(sn)].asks)
        /\ \A k \in 1..Len(t.bids_volume_list) :
            /\ k + 1 <= Len(sn)
            /\ k <= Len(t.bids_volume_timestamp_list)
            /\ t.bids_volume_timestamp_list[k] = sn[k + 1].timestamp
            /\ t.bids_volume_list[k] = get_bids_volume(sn[k + 1].bids, sn[k].bids)
        /\ \A k \in 1..Len(t.asks_volume_list) :
            /\ k + 1 <= Len(sn)
            /\ k <= Len(t.asks_volume_timestamp_list)
            /\ t.asks_volume_timestamp_list[k] = sn[k + 1].timestamp
            /\ t.asks_volume_list[k] = get_asks_volume(sn[k + 1].asks, sn[k].asks)

\* C7: the k-th entry of an exchange's series is the timestamp of its (k+1)-th
\* snapshot and the reconciler's result for its (k+1)-th against its k-th
\* snapshot, the stored sides are those of its latest snapshot, and a line of
\* another exchange leaves its tracker unchanged.
C7_ConsecutiveSnapshots ==
    /\ [](ConsecutivePairs(EX1) /\ ConsecutivePairs(EX2))
    /\ [][(Len(ob_log_list') = Len(ob_log_list) + 1) =>
            LET data == ob_log_list'[Len(ob_log_list')]
            IN  /\ (data.exchange # EX1 => ex1' = ex1)
                /\ (data.exchange # EX2 => ex2' = ex2)]_vars

\* Three lines EX1, EX2, EX1 where the second EX1 snapshot consumed bids volume.
C7_Witness ==
    /\ Len(ob_log_list) = 3
    /\ ob_log_list[1].exchange = EX1
    /\ ob_log_list[2].exchange = EX2
    /\ ob_log_list[3].exchange = EX1
    /\ ob_log_list[2].bids # ob_log_list[1].bids
    /\ ob_log_list[3].timestamp # ob_log_list[2].timestamp
    /\ Len(ex1.bids_volume_list) = 1 /\ ex1.bids_volume_list[1] > 0
    /\ Len(ex1.asks_volume_list) = 1 /\ ex1.asks_volume_list[1] > 0

\* The summary of the exchange was attempted.
Ex1Summarised == pc \in {"ex2_summary", "done", "failed"}
Ex2Summarised == pc = "done" \/ (pc = "failed" /\ ex1_avg_hourly_volume # None)

EmptySeries(ex) == ex.bids_volume_list = <<>> \/ ex.asks_volume_list = <<>>

\* C1: the hourly rate of an exchange with an empty bids or asks series (fewer
\* than 2 snapshots) is 0.
C1_EmptySeriesRateIsZero ==
    /\ (Ex1Summarised /\ EmptySeries(ex1)) => IsZeroRate(ex1_avg_hourly_volume)
    /\ (Ex2Summarised /\ EmptySeries(ex2)) => IsZeroRate(ex2_avg_hourly_volume)

\* C2: the hourly rate of an exchange with non-empty series and a zero or
\* negative time span is 0.
C2_NonPositiveSpanRateIsZero ==
    /\ (Ex1Summarised /\ ~EmptySeries(ex1) /\ Lapse(ex1) <= 0)
            => IsZeroRate(ex1_avg_hourly_volume)
    /\ (Ex2Summarised /\ ~EmptySeries(ex2) /\ Lapse(ex2) <= 0)
            => IsZeroRate(ex2_avg_hourly_volume)

====
